---------------------------- MODULE Spec2Model ----------------------------
(***************************************************************************)
(* Rare-format detection (mlchecks/checks/integrity/                        *)
(* rare_format_detection.py).                                               *)
(*                                                                          *)
(* A Python str is a sequence of one-character strings: "a1" is            *)
(* <<"a", "1">> and '' is <<>>.  A regular expression of the shapes the    *)
(* module uses ([class] and [class]+) is a record [chars, plus].           *)
(* A float threshold is a pair <<num, den>> of naturals, den > 0, and      *)
(* comparisons with it are done by cross-multiplication.                   *)
(***************************************************************************)
EXTENDS Integers, Sequences, FiniteSets, TLC

VARIABLES
    pc,                     \* position of the call
    column,                 \* dataset.data[column_name], after astype(str)
    patterns,               \* the patterns argument
    rarity_threshold,       \* the rarity_threshold argument
    pattern_match_method,   \* the pattern_match_method argument
    idx,                    \* index of the pattern the loop of _detect_per_column is at
    formats_to_ignore,      \* _detect_per_column's formats_to_ignore
    all_pattern_results,    \* _detect_per_column's all_pattern_results
    res_log,                \* the value of res in each iteration so far, with the locals it came from
    value,                  \* the DataFrame _detect_per_column returns (dropna applied)
    col,                    \* get_rare_vs_common_values: the value counts of its col argument
    sharp_drop_ratio_threshold, \* get_rare_vs_common_values: its threshold argument
    value_counts,           \* get_rare_vs_common_values: value_counts after drop('')
    ret,                    \* get_rare_vs_common_values: what it returned
    fmt,                    \* _refine_formats: fmt
    substr,                 \* _refine_formats: substr
    samples,                \* _refine_formats: samples
    is_substr_sequence,     \* _refine_formats: is_substr_sequence
    new_format              \* _refine_formats: what it returned or raised

vars == <<pc, column, patterns, rarity_threshold, pattern_match_method, idx,
          formats_to_ignore, all_pattern_results, res_log, value,
          col, sharp_drop_ratio_threshold, value_counts, ret,
          fmt, substr, samples, is_substr_sequence, new_format>>

detectVars == <<column, patterns, rarity_threshold, pattern_match_method, idx,
                formats_to_ignore, all_pattern_results, res_log, value>>
partitionVars == <<col, sharp_drop_ratio_threshold, value_counts, ret>>
refineVars == <<fmt, substr, samples, is_substr_sequence, new_format>>

-----------------------------------------------------------------------------
(* Bounds of the model *)

MaxColumnLen == 4
MaxPatterns == 2
MaxCount == 3
MaxSamples == 3

-----------------------------------------------------------------------------
(* Generic helpers *)

\* the ignore argument left at None
None == <<>>

Range(s) == {s[i] : i \in 1..Len(s)}

SeqsUpTo(S, n) == UNION {[1..k -> S] : k \in 0..n}

RECURSIVE Concat(_)
Concat(ss) == IF ss = <<>> THEN <<>> ELSE Head(ss) \o Concat(Tail(ss))

RECURSIVE SumSeq(_)
SumSeq(s) == IF s = <<>> THEN 0 ELSE Head(s) + SumSeq(Tail(s))

\* s[from:] of Python, from 0-based and not beyond len(s)
Drop(s, n) == SubSeq(s, n + 1, Len(s))

\* s.find(p): the 0-based index of the first occurrence, -1 when there is none
Find(s, p) ==
    LET hits == {i \in 0..(Len(s) - Len(p)) : SubSeq(s, i + 1, i + Len(p)) = p}
    IN  IF hits = {} THEN -1 ELSE CHOOSE i \in hits : \A j \in hits : i <= j

\* p in s
Contains(s, p) == Find(s, p) # -1

\* the elements of s at the indices in keep, in order (a boolean mask)
AtIndices(s, keep) ==
    LET Nth(n) == CHOOSE i \in keep : Cardinality({j \in keep : j < i}) = n - 1
    IN  [n \in 1..Cardinality(keep) |-> s[Nth(n)]]

\* pandas unique(): the distinct elements in order of first appearance
RECURSIVE Unique(_)
Unique(s) ==
    IF s = <<>> THEN <<>>
    ELSE LET init == Unique(SubSeq(s, 1, Len(s) - 1))
             x == s[Len(s)]
         IN  IF x \in Range(init) THEN init ELSE Append(init, x)

-----------------------------------------------------------------------------
(* Characters, regular expressions and the Pattern class *)

\* \d
DigitChars == {"0", "1", "2"}
\* [A-Z|a-z]
LetterChars == {"a", "b", "X", "|"}
\* [A-Z|a-z|d]: no backslash before the d, so digits do not match
LetterOrDChars == LetterChars \cup {"d"}

Regex(chars, plus) == [chars |-> chars, plus |-> plus]

\* the rest of s after its longest prefix of characters of chars
RECURSIVE SkipRun(_, _)
SkipRun(s, chars) ==
    IF s # <<>> /\ Head(s) \in chars THEN SkipRun(Tail(s), chars) ELSE s

\* re.sub(rx, repl, s): every non-overlapping match, left to right, becomes
\* repl; replaced text is not scanned again
RECURSIVE ReSub(_, _, _)
ReSub(rx, repl, s) ==
    IF s = <<>> THEN <<>>
    ELSE IF Head(s) \in rx.chars
         THEN repl \o ReSub(rx, repl, IF rx.plus THEN SkipRun(s, rx.chars) ELSE Tail(s))
         ELSE <<Head(s)>> \o ReSub(rx, repl, Tail(s))

\* Pattern.__init__: one tuple becomes a list of one tuple; ignore is None
\* or <<regex>>
Pattern(name, substituters, ignore, refine, is_sequence) ==
    [name |-> name, substituters |-> substituters, ignore |-> ignore,
     refine |-> refine, is_sequence |-> is_sequence]

\* Pattern.clean
clean(pattern, s) ==
    IF pattern.ignore = None THEN s ELSE ReSub(pattern.ignore[1], <<>>, s)

RECURSIVE ApplySubstituters(_, _)
ApplySubstituters(substituters, s) ==
    IF substituters = <<>> THEN s
    ELSE ApplySubstituters(Tail(substituters),
                           ReSub(Head(substituters)[1], Head(substituters)[2], s))

\* Pattern.sub
sub(pattern, s) == ApplySubstituters(pattern.substituters, clean(pattern, s))

\* all(...) in place of any(...)
is_format_significant_all(pattern, f) ==
    \A i \in 1..Len(pattern.substituters) : Contains(f, pattern.substituters[i][2])

\* Pattern.is_format_significant
is_format_significant(pattern, f) ==
    \E i \in 1..Len(pattern.substituters) : Contains(f, pattern.substituters[i][2])

\* DEFAULT_PATTERNS, the entries the model draws from
DigitsAndLetters ==
    Pattern("digits and letters format",
            << <<Regex(DigitChars, FALSE), <<"0">> >>,
               <<Regex(LetterChars, FALSE), <<"X">> >> >>,
            None, FALSE, FALSE)
LettersOnly ==
    Pattern("letters only format (ignoring digits)",
            << <<Regex(LetterChars, FALSE), <<"X">> >> >>,
            <<Regex(DigitChars, FALSE)>>, TRUE, FALSE)
AnySequence ==
    Pattern("any sequence format",
            << <<Regex(LetterOrDChars, TRUE), <<"X", "X", "X">> >> >>,
            None, TRUE, TRUE)
\* a caller's Pattern(name, substituters=[]): __init__ accepts it
NoSubstituters ==
    Pattern("no substituters", <<>>, None, TRUE, FALSE)

-----------------------------------------------------------------------------
(* get_rare_vs_common_values *)

\* A pandas Series of strings, as far as value_counts reads it: the function
\* from its distinct items to their counts (>= 1).
RECURSIVE CountIn(_, _)
CountIn(s, x) ==
    IF s = <<>> THEN 0
    ELSE (IF Head(s) = x THEN 1 ELSE 0) + CountIn(Tail(s), x)

CountsOf(series) == [x \in Range(series) |-> CountIn(series, x)]

\* col.value_counts(): the distinct items with their counts, by descending
\* count.  The order among equal counts depends on the pandas version, so
\* every such order is an outcome.
ValueCounts(counts) ==
    {r \in [1..Cardinality(DOMAIN counts) -> {<<x, counts[x]>> : x \in DOMAIN counts}] :
        /\ \A i, j \in DOMAIN r : i # j => r[i] # r[j]
        /\ \A i \in 1..(Len(r) - 1) : r[i][2] >= r[i + 1][2]}

\* value_counts() without the drop: the '' item stays
DropNothing(vc) == vc

\* .drop('', errors='ignore')
DropEmptyString(vc) == AtIndices(vc, {i \in 1..Len(vc) : vc[i][1] # <<>>})

Index(vc) == [i \in 1..Len(vc) |-> vc[i][1]]
Counts(vc) == [i \in 1..Len(vc) |-> vc[i][2]]

\* the comparison turned round: curr_value > sharp_drop_ratio_threshold * prev_value
SharpDropReversed(prev_value, curr_value, threshold) ==
    curr_value * threshold[2] > threshold[1] * prev_value

\* the comparison made non-strict: curr_value <= sharp_drop_ratio_threshold * prev_value
SharpDropOrEqual(prev_value, curr_value, threshold) ==
    curr_value * threshold[2] <= threshold[1] * prev_value

\* curr_value < sharp_drop_ratio_threshold * prev_value
SharpDrop(prev_value, curr_value, threshold) ==
    curr_value * threshold[2] < threshold[1] * prev_value

\* return 0, None, None
NoRareValues ==
    [ratio |-> <<0, 1>>, rare_values |-> <<>>, common_values |-> <<>>, is_none |-> TRUE]

\* the numbers of distinct items instead of the sums of their counts
RatioOfLengths(rare, common) == <<Len(rare), Len(common)>>

\* rare_values.sum() / common_values.sum(), as the pair of the two sums
Ratio(rare, common) == <<SumSeq(Counts(rare)), SumSeq(Counts(common))>>

LastDrop(drops) == CHOOSE k \in drops : \A j \in drops : k >= j

\* the pair at which the loop of line 287 breaks: the first sharp drop
FirstDrop(drops) == CHOOSE k \in drops : \A j \in drops : k <= j

\* get_rare_vs_common_values from line 284 on, value_counts being the result
\* of line 281.  The ratio is the pair <<rare sum, common sum>>.
get_rare_vs_common_values(vc, threshold) ==
    IF Len(vc) <= 1 THEN NoRareValues
    ELSE LET drops == {i \in 1..(Len(vc) - 1) : SharpDrop(vc[i][2], vc[i + 1][2], threshold)}
         IN  IF drops = {} THEN NoRareValues
             ELSE LET i == FirstDrop(drops)
                      rare == SubSeq(vc, i + 1, Len(vc))
                      common == SubSeq(vc, 1, i)
                  IN  [ratio |-> Ratio(rare, common),
                       rare_values |-> Index(rare),
                       common_values |-> Index(common),
                       is_none |-> FALSE]

\* ratio == 0
IsZero(ratio) == ratio[1] = 0

-----------------------------------------------------------------------------
(* _refine_formats *)

\* mlchecks.base.string_utils.split_and_keep: s cut at every occurrence of
\* separator, the occurrences kept as tokens of their own
RECURSIVE split_and_keep(_, _)
split_and_keep(s, separator) ==
    IF s = <<>> THEN <<>>
    ELSE LET i == Find(s, separator)
         IN  IF i = 0 THEN <<separator>> \o split_and_keep(Drop(s, Len(separator)), separator)
             ELSE IF i = -1 THEN <<s>>
             ELSE <<SubSeq(s, 1, i)>> \o split_and_keep(Drop(s, i), separator)

\* mlchecks.base.string_utils.split_and_keep_by_many: s cut at the literal
\* segments of the format, taken in their order, each kept as a token
RECURSIVE split_and_keep_by_many(_, _)
split_and_keep_by_many(s, separators) ==
    IF s = <<>> THEN <<>>
    ELSE IF separators = <<>> THEN <<s>>
    ELSE LET sep == Head(separators)
             i == Find(s, sep)
         IN  IF i = 0 THEN <<sep>> \o split_and_keep_by_many(Drop(s, Len(sep)), Tail(separators))
             ELSE IF i = -1 THEN <<s>>
             ELSE <<SubSeq(s, 1, i)>> \o split_and_keep_by_many(Drop(s, i), separators)

\* list(s) of a str
ListOf(s) == [i \in 1..Len(s) |-> <<s[i]>>]

\* list(filter(lambda x: x != substr, splt_fmt))
RECURSIVE WithoutSeparator(_, _)
WithoutSeparator(tokens, separator) ==
    IF tokens = <<>> THEN <<>>
    ELSE (IF Head(tokens) # separator THEN <<Head(tokens)>> ELSE <<>>)
         \o WithoutSeparator(Tail(tokens), separator)

\* lines 231-237: the tokens of the format
SplitFormat(f, separator, is_sequence) ==
    IF is_sequence THEN split_and_keep(f, separator) ELSE ListOf(f)

\* lines 231-237: the tokens of each sample
SplitExamples(f, separator, smpls, is_sequence) ==
    IF is_sequence
    THEN LET splt_fmt_wo_sep == WithoutSeparator(split_and_keep(f, separator), separator)
         IN  [k \in 1..Len(smpls) |-> split_and_keep_by_many(smpls[k], splt_fmt_wo_sep)]
    ELSE [k \in 1..Len(smpls) |-> ListOf(smpls[k])]

Returned(v) == [raised |-> "", value |-> v]
Raised(e) == [raised |-> e, value |-> <<>>]

\* all(split_sample[i] == common_value for split_sample in rest): "True",
\* "False", or "IndexError" when a sample met before any differing one has
\* no token i
RECURSIVE AllEqualAt(_, _, _)
AllEqualAt(rest, i, common_value) ==
    IF rest = <<>> THEN "True"
    ELSE IF Len(Head(rest)) < i THEN "IndexError"
    ELSE IF Head(rest)[i] # common_value THEN "False"
    ELSE AllEqualAt(Tail(rest), i, common_value)

\* lines 239-251: the loop over range(len(example)), from position i on
RECURSIVE RefineLoop(_, _, _, _, _)
RefineLoop(splt_fmt, split_examples, separator, i, acc) ==
    IF i > Len(split_examples[1]) THEN Returned(Concat(acc))
    ELSE IF i > Len(splt_fmt) THEN Raised("IndexError")
    ELSE IF splt_fmt[i] # separator
         THEN RefineLoop(splt_fmt, split_examples, separator, i + 1, Append(acc, splt_fmt[i]))
    ELSE LET common_value == split_examples[1][i]
             same == AllEqualAt(Tail(split_examples), i, common_value)
         IN  IF same = "IndexError" THEN Raised("IndexError")
             ELSE RefineLoop(splt_fmt, split_examples, separator, i + 1,
                             Append(acc, IF same = "True" THEN common_value ELSE splt_fmt[i]))

FillerNeverAbsent(f, separator) == FALSE

FillerAbsent(f, separator) == ~Contains(f, separator)

_refine_formats(f, separator, smpls, is_sequence) ==
    IF FillerAbsent(f, separator) THEN Returned(f)
    ELSE IF smpls = <<>> THEN Raised("IndexError")
    ELSE RefineLoop(SplitFormat(f, separator, is_sequence),
                    SplitExamples(f, separator, smpls, is_sequence),
                    separator, 1, <<>>)

-----------------------------------------------------------------------------
(* _detect_per_column_and_pattern *)

\* column.apply(pattern.sub)
PatternedColumn(series, pattern) == [i \in 1..Len(series) |-> sub(pattern, series[i])]

\* f'{ratio:.2%}': the ratio in hundredths of a percent, rounded half to even
FormatPercent(ratio) ==
    LET q == (ratio[1] * 10000) \div ratio[2]
        r == (ratio[1] * 10000) % ratio[2]
    IN  IF 2 * r > ratio[2] THEN q + 1
        ELSE IF 2 * r < ratio[2] THEN q
        ELSE IF q % 2 = 0 THEN q ELSE q + 1

\* return {}
EmptyDict ==
    [empty |-> TRUE, ratio |-> 0, common_formats |-> <<>>, examples |-> <<>>,
     rare_values |-> <<>>]

\* lines 198-202: the refinement of every common format, in order; the first
\* exception ends it
RECURSIVE RefineCommonFormats(_, _, _, _, _)
RefineCommonFormats(series, patterned_column, pattern, common_formats, i) ==
    IF i > Len(common_formats) THEN Returned(common_formats)
    ELSE IF pattern.substituters = <<>> THEN Raised("IndexError")
    ELSE LET f == common_formats[i]
             masked == AtIndices(series, {k \in 1..Len(series) : patterned_column[k] = f})
             format_samples == [k \in 1..Len(masked) |-> clean(pattern, masked[k])]
             refined == _refine_formats(f, pattern.substituters[1][2], format_samples,
                                        pattern.is_sequence)
         IN  IF refined.raised # "" THEN refined
             ELSE RefineCommonFormats(series, patterned_column, pattern,
                                      [common_formats EXCEPT ![i] = refined.value], i + 1)

\* the exclusion of line 193 without the mask of line 192
RareMaskAnyFormat(series, patterned_column, rare_formats, exclude_samples) ==
    {k \in 1..Len(series) : series[k] \notin Range(exclude_samples)}

\* the boolean mask of line 192 / 193 without the exclusion
RareMaskNoExclusion(series, patterned_column, rare_formats, exclude_samples) ==
    {k \in 1..Len(series) : patterned_column[k] \in Range(rare_formats)}

\* lines 192-193: the rows whose format is rare and whose value is not in
\* exclude_samples
RareMask(series, patterned_column, rare_formats, exclude_samples) ==
    {k \in 1..Len(series) :
        /\ patterned_column[k] \in Range(rare_formats)
        /\ series[k] \notin Range(exclude_samples)}

\* the test of line 194 left out
NeverEmpty(rare_values) == FALSE

\* rare_values.empty
IsEmptySeries(rare_values) == rare_values = <<>>

\* _detect_per_column_and_pattern, vc being patterned_column.value_counts().
\* Gives [raised, value]: value is the dict returned.
_detect_per_column_and_pattern(series, pattern, threshold, exclude_samples, vc) ==
    LET patterned_column == PatternedColumn(series, pattern)
        part == get_rare_vs_common_values(DropEmptyString(vc), threshold)
        rare_values ==
            AtIndices(series, RareMask(series, patterned_column, part.rare_values,
                                       exclude_samples))
        common_values_examples ==
            [n \in 1..Len(part.common_values) |->
                series[CHOOSE k \in 1..Len(series) :
                          /\ patterned_column[k] = part.common_values[n]
                          /\ \A j \in 1..(k - 1) : patterned_column[j] # part.common_values[n]]]
        common_formats ==
            IF pattern.refine
            THEN RefineCommonFormats(series, patterned_column, pattern, part.common_values, 1)
            ELSE Returned(part.common_values)
    IN  IF IsZero(part.ratio) THEN Returned(EmptyDict)
        ELSE IF ~\E n \in 1..Len(part.common_values) :
                    is_format_significant(pattern, part.common_values[n])
             THEN Returned(EmptyDict)
        ELSE IF IsEmptySeries(rare_values) THEN Returned(EmptyDict)
        ELSE IF common_formats.raised # "" THEN common_formats
        ELSE Returned([empty |-> FALSE,
                       ratio |-> FormatPercent(part.ratio),
                       common_formats |-> common_formats.value,
                       examples |-> common_values_examples,
                       rare_values |-> Unique(rare_values)])

-----------------------------------------------------------------------------
(* Inputs *)

\* raw values of a column, after astype(str)
Vocabulary == << <<"a", "1">>, <<"a", "b">>, <<"1">> >>

\* the columns of at most n rows over Vocabulary, one row order for each
\* multiset of values (equal values adjacent)
Columns(n) ==
    UNION {{[i \in 1..k |-> Vocabulary[f[i]]] :
              f \in {g \in [1..k -> DOMAIN Vocabulary] :
                        \A i \in 1..(k - 1) : g[i] <= g[i + 1]}} : k \in 0..n}

PatternSet ==
    {DigitsAndLetters, LettersOnly, AnySequence, NoSubstituters}

\* 0.05 (the default), 0.5, 1 and 2
Thresholds == { <<1, 20>>, <<1, 2>>, <<1, 1>>, <<2, 1>> }

\* the thresholds the column analysis is run with: 0.5 and 1
RarityThresholds == { <<1, 2>>, <<1, 1>> }

Methods == {"first", "all", "any"}

\* items of a frequency distribution
Items == { <<>>, <<"X">>, <<"0">>, <<"X", "0">>, <<"0", "0">> }

\* formats, fillers and samples given to _refine_formats
Foo == <<"f", "o", "o", "@", "g", "m", "a", "i", "l", ".", "c", "o", "m">>
Bar == <<"b", "a", "r", "@", "g", "m", "a", "i", "l", ".", "c", "o", "m">>
Baz == <<"b", "a", "z", "@", "g", "m", "a", "i", "l", ".", "c", "o", "m">>
EmailFormat == <<"X", "X", "X", "@", "X", "X", "X", ".", "X", "X", "X">>
Formats == { EmailFormat, <<"X", "-", "X">>, <<"X", "X">>, <<"a", "-", "1">>, <<"X", "X", "X", "-">> }
Fillers == { <<"X">>, <<"X", "X", "X">> }
SampleVocabulary == { Foo, Bar, Baz, <<"a", "-", "b">>, <<"a", "-", "a">>, <<"a", "b">>, <<"a", "b", "-">> }

NoResults == [n \in {} |-> EmptyDict]

-----------------------------------------------------------------------------
(* rare_format_detection on one column *)

DetectIdle ==
    /\ column = <<>> /\ patterns = <<>> /\ rarity_threshold = <<1, 20>>
    /\ pattern_match_method = "first" /\ idx = 0 /\ formats_to_ignore = <<>>
    /\ all_pattern_results = NoResults /\ res_log = <<>> /\ value = NoResults
PartitionIdle ==
    /\ col = NoResults /\ sharp_drop_ratio_threshold = <<1, 20>>
    /\ value_counts = <<>> /\ ret = NoRareValues
RefineIdle ==
    /\ fmt = <<>> /\ substr = <<>> /\ samples = <<>> /\ is_substr_sequence = FALSE
    /\ new_format = Returned(<<>>)

Init ==
    /\ pc = "entry"
    /\ column \in Columns(MaxColumnLen)
    /\ patterns \in SeqsUpTo(PatternSet, MaxPatterns)
    /\ rarity_threshold \in RarityThresholds
    /\ pattern_match_method \in Methods
    /\ idx = 0
    /\ formats_to_ignore = <<>>
    /\ all_pattern_results = NoResults
    /\ res_log = <<>>
    /\ value = NoResults
    /\ PartitionIdle
    /\ RefineIdle

\* the test of line 116 with 'any' let through
ValidMethodLax(method) == method \in {"first", "all", "any"}

\* line 116: pattern_match_method in ['first', 'all']
ValidMethod(method) == method \in {"first", "all"}

\* lines 116-117
RaiseValueError ==
    /\ pc = "entry"
    /\ ~ValidMethod(pattern_match_method)
    /\ pc' = "MLChecksValueError"
    /\ UNCHANGED <<detectVars, partitionVars, refineVars>>

\* lines 122 and 153-154: _detect_per_column is entered
EnterDetectPerColumn ==
    /\ pc = "entry"
    /\ ValidMethod(pattern_match_method)
    /\ pc' = "loop"
    /\ idx' = 1
    /\ formats_to_ignore' = <<>>
    /\ all_pattern_results' = NoResults
    /\ UNCHANGED <<column, patterns, rarity_threshold, pattern_match_method, res_log,
                   value, partitionVars, refineVars>>

\* lines 157-158 without the test of pattern_match_method
ExtendIgnoreAnyMethod(ignore, res, method) ==
    IF ~res.empty THEN ignore \o res.rare_values ELSE ignore

\* lines 157-158: formats_to_ignore after an iteration that returned res
ExtendIgnore(ignore, res, method) ==
    IF ~res.empty /\ method = "first" THEN ignore \o res.rare_values ELSE ignore

\* lines 155-159: one iteration of the loop over patterns
PatternIteration ==
    /\ pc = "loop"
    /\ idx <= Len(patterns)
    /\ \E vc \in ValueCounts(CountsOf(PatternedColumn(column, patterns[idx]))) :
        LET pattern == patterns[idx]
            r == _detect_per_column_and_pattern(column, pattern, rarity_threshold,
                                                formats_to_ignore, vc)
            entry == [value_counts |-> vc, exclude_samples |-> formats_to_ignore,
                      raised |-> r.raised,
                      res |-> IF r.raised = "" THEN r.value ELSE EmptyDict]
        IN  /\ res_log' = Append(res_log, entry)
            /\ IF r.raised # ""
               THEN /\ pc' = r.raised
                    /\ UNCHANGED <<idx, formats_to_ignore, all_pattern_results>>
               ELSE /\ pc' = "loop"
                    /\ idx' = idx + 1
                    /\ formats_to_ignore' =
                          ExtendIgnore(formats_to_ignore, r.value, pattern_match_method)
                    /\ all_pattern_results' =
                          [n \in DOMAIN all_pattern_results \cup {pattern.name} |->
                              IF n = pattern.name THEN r.value ELSE all_pattern_results[n]]
    /\ UNCHANGED <<column, patterns, rarity_threshold, pattern_match_method, value,
                   partitionVars, refineVars>>

\* pd.DataFrame(all_pattern_results).dropna(axis=1, how='all')
DropNa(results) == [n \in {m \in DOMAIN results : ~results[m].empty} |-> results[n]]

\* line 161
ReturnDataFrame ==
    /\ pc = "loop"
    /\ idx > Len(patterns)
    /\ pc' = "done"
    /\ value' = DropNa(all_pattern_results)
    /\ UNCHANGED <<column, patterns, rarity_threshold, pattern_match_method, idx,
                   formats_to_ignore, all_pattern_results, res_log, partitionVars, refineVars>>

Next == RaiseValueError \/ EnterDetectPerColumn \/ PatternIteration \/ ReturnDataFrame

Spec == Init /\ [][Next]_vars

-----------------------------------------------------------------------------
(* get_rare_vs_common_values called on a frequency distribution *)

\* the Series whose items occur as often as c says, the items c counts 0
\* times being absent
Distribution(c) == [x \in {y \in DOMAIN c : c[y] > 0} |-> c[x]]

InitPartition ==
    /\ pc = "partition"
    /\ \E c \in [Items -> 0..MaxCount] : col = Distribution(c)
    /\ sharp_drop_ratio_threshold \in Thresholds
    /\ value_counts = <<>>
    /\ ret = NoRareValues
    /\ DetectIdle
    /\ RefineIdle

\* lines 281-299
RareVsCommon ==
    /\ pc = "partition"
    /\ \E vc \in ValueCounts(col) :
        /\ value_counts' = DropEmptyString(vc)
        /\ ret' = get_rare_vs_common_values(DropEmptyString(vc), sharp_drop_ratio_threshold)
    /\ pc' = "partitioned"
    /\ UNCHANGED <<col, sharp_drop_ratio_threshold, detectVars, refineVars>>

SpecPartition == InitPartition /\ [][RareVsCommon]_vars

-----------------------------------------------------------------------------
(* _refine_formats called on a format, a filler and samples *)

InitRefine ==
    /\ pc = "refine"
    /\ fmt \in Formats
    /\ substr \in Fillers
    /\ samples \in SeqsUpTo(SampleVocabulary, MaxSamples)
    /\ is_substr_sequence \in BOOLEAN
    /\ new_format = Returned(<<>>)
    /\ DetectIdle
    /\ PartitionIdle

\* lines 228-255
RefineFormats ==
    /\ pc = "refine"
    /\ new_format' = _refine_formats(fmt, substr, samples, is_substr_sequence)
    /\ pc' = "refined"
    /\ UNCHANGED <<fmt, substr, samples, is_substr_sequence, detectVars, partitionVars>>

SpecRefine == InitRefine /\ [][RefineFormats]_vars

-----------------------------------------------------------------------------
(* Properties of get_rare_vs_common_values (SpecPartition) *)

RECURSIVE SumCounts(_, _)
SumCounts(c, S) ==
    IF S = {} THEN 0
    ELSE LET x == CHOOSE y \in S : TRUE IN c[x] + SumCounts(c, S \ {x})

\* t1 <= t2
ThresholdLeq(t1, t2) == t1[1] * t2[2] <= t2[1] * t1[2]

Partitioned == pc = "partitioned" /\ ~ret.is_none

\* C1, as claimed: whenever a partition is returned, common and rare are
\* disjoint, list every item once, and together are exactly the distinct
\* items of the input.
C1_UnionIsAllInputItems ==
    Partitioned =>
        /\ Range(ret.common_values) \cap Range(ret.rare_values) = {}
        /\ Len(ret.common_values) + Len(ret.rare_values) = Cardinality(DOMAIN col)
        /\ Range(ret.common_values) \cup Range(ret.rare_values) = DOMAIN col

\* C1, amended: whenever a partition is returned, common and rare are
\* disjoint, list every item once, and together are exactly the distinct
\* input items other than the empty string, which is dropped before ranking.
C1_UnionIsNonEmptyInputItems ==
    Partitioned =>
        /\ Range(ret.common_values) \cap Range(ret.rare_values) = {}
        /\ Len(ret.common_values) + Len(ret.rare_values) = Cardinality(DOMAIN col \ {<<>>})
        /\ Range(ret.common_values) \cup Range(ret.rare_values) = DOMAIN col \ {<<>>}

C1_Witness ==
    /\ Partitioned
    /\ <<>> \in DOMAIN col
    /\ Len(ret.common_values) >= 2
    /\ Len(ret.rare_values) >= 2

\* C3: for thresholds t1 <= t2 and one ranking, a partition under t1 means a
\* partition under t2 in which every item rare under t1 is rare and every
\* common item was common under t1, the two partitions holding the same
\* number of distinct items.
C3_ThresholdMonotonicity ==
    pc = "partitioned" =>
        \A t2 \in Thresholds :
            ThresholdLeq(sharp_drop_ratio_threshold, t2) =>
                LET r2 == get_rare_vs_common_values(value_counts, t2)
                IN  ~ret.is_none =>
                        /\ ~r2.is_none
                        /\ Range(ret.rare_values) \subseteq Range(r2.rare_values)
                        /\ Range(r2.common_values) \subseteq Range(ret.common_values)
                        /\ Len(r2.common_values) + Len(r2.rare_values)
                             = Len(ret.common_values) + Len(ret.rare_values)

C3_Witness ==
    /\ Partitioned
    /\ \E t2 \in Thresholds :
        /\ ThresholdLeq(sharp_drop_ratio_threshold, t2)
        /\ Len(get_rare_vs_common_values(value_counts, t2).rare_values)
             > Len(ret.rare_values)

\* every distinct item has the same count
Uniform(c) == \A x, y \in DOMAIN c : c[x] = c[y]

\* C4, as claimed: a distribution whose items all have the same count gets
\* no partition, whatever the threshold.
C4_UniformNeverPartitioned ==
    (pc = "partitioned" /\ Uniform(col)) => (ret.is_none /\ IsZero(ret.ratio))

\* C4, amended: a distribution whose items all have the same count gets no
\* partition for every threshold that is at most 1.
C4_UniformNotPartitionedUpToOne ==
    (pc = "partitioned" /\ Uniform(col)
        /\ ThresholdLeq(sharp_drop_ratio_threshold, <<1, 1>>))
    => (ret.is_none /\ IsZero(ret.ratio))

C4_Witness ==
    /\ pc = "partitioned"
    /\ Uniform(col)
    /\ Cardinality(DOMAIN col \ {<<>>}) = 4
    /\ sharp_drop_ratio_threshold = <<1, 1>>
    /\ ret.is_none

\* C5: a returned partition has the ratio (sum of the counts of the rare
\* items) / (sum of the counts of the common items), which is not 0; no
\* partition is returned with ratio 0; so ratio == 0 exactly when there is no
\* partition.
C5_RatioInvariant ==
    pc = "partitioned" =>
        /\ ret.is_none => ret.ratio = <<0, 1>>
        /\ ~ret.is_none =>
              /\ ret.ratio = <<SumCounts(col, Range(ret.rare_values)),
                               SumCounts(col, Range(ret.common_values))>>
              /\ ret.ratio[2] > 0
        /\ IsZero(ret.ratio) <=> ret.is_none

C5_Witness ==
    /\ Partitioned
    /\ Len(ret.rare_values) >= 2
    /\ ret.ratio[1] > Len(ret.rare_values)
    /\ ret.ratio[2] > Len(ret.common_values)

-----------------------------------------------------------------------------
(* Properties of the column analysis (Spec) *)

\* What iteration k of the loop computed, from the inputs and the ranking it drew
LogPart(k) ==
    get_rare_vs_common_values(DropEmptyString(res_log[k].value_counts), rarity_threshold)

\* the raw values whose format under pattern k is one of the rare formats
RareRows(k) ==
    {column[i] : i \in {j \in 1..Len(column) :
                           sub(patterns[k], column[j]) \in Range(LogPart(k).rare_values)}}

\* some common format contains one of pattern k's filler literals
SomeCommonHasFiller(k) ==
    \E n \in 1..Len(LogPart(k).common_values) :
        \E i \in 1..Len(patterns[k].substituters) :
            Contains(LogPart(k).common_values[n], patterns[k].substituters[i][2])

\* the three conditions of a finding
FindingConditions(k) ==
    /\ ~LogPart(k).is_none
    /\ SomeCommonHasFiller(k)
    /\ RareRows(k) \ Range(res_log[k].exclude_samples) # {}

\* the last pattern of the list with pattern k's name
LastOfName(k) ==
    \A j \in 1..Len(patterns) : patterns[j].name = patterns[k].name => j <= k

\* C2: with pattern_match_method 'first', the rare values of the findings of
\* one column are pairwise disjoint: of the iterations' findings, of the
\* results kept per pattern name, and of the returned table.
C2_FirstMatchExclusivity ==
    pattern_match_method = "first" =>
        /\ \A i, j \in DOMAIN res_log :
              i < j => Range(res_log[i].res.rare_values)
                         \cap Range(res_log[j].res.rare_values) = {}
        /\ \A n, m \in DOMAIN all_pattern_results :
              n # m => Range(all_pattern_results[n].rare_values)
                         \cap Range(all_pattern_results[m].rare_values) = {}
        /\ \A n, m \in DOMAIN value :
              n # m => Range(value[n].rare_values) \cap Range(value[m].rare_values) = {}

C2_Witness ==
    /\ pc = "done"
    /\ pattern_match_method = "first"
    /\ Cardinality(DOMAIN value) = 2
    /\ Len(res_log) = 2
    /\ Range(res_log[1].res.rare_values) \cap RareRows(2) # {}

\* C6: an iteration returns a finding only when the format frequencies have
\* a partition, some common format contains a filler literal of the pattern
\* and a raw value of rare format is left after the exclusion; in every other
\* case it returns {} without raising, and the returned table has an entry
\* for a name exactly when the last pattern of that name returned a finding.
C6_FindingOnlyWhenAllThree ==
    /\ \A k \in DOMAIN res_log :
          /\ ~res_log[k].res.empty => FindingConditions(k)
          /\ ~FindingConditions(k) => (res_log[k].raised = "" /\ res_log[k].res.empty)
    /\ pc = "done" =>
          /\ Len(res_log) = Len(patterns)
          /\ \A k \in DOMAIN res_log :
                LastOfName(k) =>
                    IF res_log[k].res.empty
                    THEN patterns[k].name \notin DOMAIN value
                    ELSE /\ patterns[k].name \in DOMAIN value
                         /\ value[patterns[k].name] = res_log[k].res
          /\ \A n \in DOMAIN value : \E k \in DOMAIN res_log : patterns[k].name = n

C6_Witness ==
    /\ pc = "done"
    /\ Len(res_log) = 2
    /\ ~res_log[1].res.empty
    /\ res_log[2].res.empty
    /\ ~LogPart(2).is_none
    /\ SomeCommonHasFiller(2)
    /\ RareRows(2) # {}
    /\ patterns[1].name # patterns[2].name
    /\ DOMAIN value = {patterns[1].name}

\* C7: with a pattern_match_method other than 'first' and 'all' the call
\* ends in the MLChecksValueError before _detect_per_column is entered: no
\* pattern is tried on any column and no result exists.
C7_InvalidMethodFailsFast ==
    pattern_match_method \notin {"first", "all"} =>
        /\ pc \in {"entry", "MLChecksValueError"}
        /\ idx = 0
        /\ res_log = <<>>
        /\ all_pattern_results = NoResults
        /\ value = NoResults

C7_Witness ==
    /\ pc = "MLChecksValueError"
    /\ pattern_match_method = "any"
    /\ Len(patterns) = 2
    /\ Len(column) >= 3

HasEmptySubstituters == \E k \in DOMAIN patterns : patterns[k].substituters = <<>>

WithoutClaimed(k) ==
    AtIndices(column, {i \in 1..Len(column) :
                          column[i] \notin Range(res_log[k].exclude_samples)})

\* some row of the column holds a value claimed before iteration k
SomeClaimed(k) == \E i \in 1..Len(column) : column[i] \in Range(res_log[k].exclude_samples)

\* iteration k's result is the result of analysing, with nothing excluded,
\* the column the claimed values are absent from, under some tie order
SameAsWithoutClaimed(k) ==
    \E vc \in ValueCounts(CountsOf(PatternedColumn(WithoutClaimed(k), patterns[k]))) :
        LET r == _detect_per_column_and_pattern(WithoutClaimed(k), patterns[k],
                                                rarity_threshold, <<>>, vc)
        IN  /\ r.raised = ""
            /\ r.value = res_log[k].res

\* C13, as claimed: with 'first', the result of every iteration is the one
\* the pattern gives on the column without the values earlier patterns
\* reported as rare.
C13_ClaimedValuesAbsent ==
    pattern_match_method = "first" =>
        \A k \in DOMAIN res_log :
            (res_log[k].raised = "" /\ SomeClaimed(k)) => SameAsWithoutClaimed(k)

\* what iteration k gives with nothing excluded, on the whole column and
\* under the ranking it drew
Unfiltered(k) ==
    _detect_per_column_and_pattern(column, patterns[k], rarity_threshold, <<>>,
                                   res_log[k].value_counts)

\* C13, amended: with 'first', a value an earlier pattern reported as rare is
\* not reported again, but it still takes part in the later pattern's
\* analysis: the formats are ranked over the whole column, the ratio, the
\* common formats and the examples of a finding are those of the whole
\* column, and its rare values are the whole column's values of rare format
\* minus the claimed ones; there is no finding when none is left.
C13_ClaimedValuesOnlyFiltered ==
    pattern_match_method = "first" =>
        \A k \in DOMAIN res_log :
            res_log[k].raised = "" =>
                LET res == res_log[k].res
                    claimed == Range(res_log[k].exclude_samples)
                IN  /\ res_log[k].value_counts
                          \in ValueCounts(CountsOf(PatternedColumn(column, patterns[k])))
                    /\ Range(res.rare_values) =
                          IF res.empty THEN {} ELSE RareRows(k) \ claimed
                    /\ res.empty =>
                          \/ Unfiltered(k).raised # ""
                          \/ Unfiltered(k).value.empty
                          \/ RareRows(k) \subseteq claimed
                    /\ ~res.empty =>
                          /\ Unfiltered(k).raised = ""
                          /\ ~Unfiltered(k).value.empty
                          /\ res.ratio = Unfiltered(k).value.ratio
                          /\ res.common_formats = Unfiltered(k).value.common_formats
                          /\ res.examples = Unfiltered(k).value.examples

\* a later pattern keeps a finding although a claimed value has one of its
\* rare formats, and the finding is not the one of the column without the
\* claimed values
C13_Witness ==
    /\ pattern_match_method = "first"
    /\ \E k \in DOMAIN res_log :
          /\ res_log[k].raised = ""
          /\ ~res_log[k].res.empty
          /\ RareRows(k) \cap Range(res_log[k].exclude_samples) # {}
          /\ ~SameAsWithoutClaimed(k)

\* the rare values of the findings of the first k iterations
ClaimedUpTo(k) == UNION {Range(res_log[j].res.rare_values) : j \in 1..k}

\* what pattern k gives when it is analysed alone, under any tie order of its
\* format ranking: a function of the column, the pattern and the threshold
AnalysedAlone(k) ==
    {_detect_per_column_and_pattern(column, patterns[k], rarity_threshold, <<>>, vc) :
        vc \in ValueCounts(CountsOf(PatternedColumn(column, patterns[k])))}

\* the accumulator before and after the iterations made so far
AccumulatorIsUnionOfFindings ==
    /\ pc = "entry" => formats_to_ignore = <<>>
    /\ \A k \in DOMAIN res_log :
          /\ k = 1 => res_log[k].exclude_samples = <<>>
          /\ pattern_match_method = "first" =>
                Range(res_log[k].exclude_samples) = ClaimedUpTo(k - 1)
          /\ pattern_match_method = "all" =>
                /\ res_log[k].exclude_samples = <<>>
                /\ \E r \in AnalysedAlone(k) :
                      /\ r.raised = res_log[k].raised
                      /\ r.raised = "" => r.value = res_log[k].res
    /\ pattern_match_method = "first" => Range(formats_to_ignore) = ClaimedUpTo(Len(res_log))
    /\ pattern_match_method = "all" => formats_to_ignore = <<>>

\* one step of the loop on the accumulator
AccumulatorStep ==
    /\ Range(formats_to_ignore) \subseteq Range(formats_to_ignore')
    /\ (Len(res_log') = Len(res_log) + 1 /\ res_log'[Len(res_log')].res.empty)
          => formats_to_ignore' = formats_to_ignore
    /\ (Len(res_log') = Len(res_log) + 1 /\ pattern_match_method = "first")
          => Range(formats_to_ignore') =
                Range(formats_to_ignore) \cup Range(res_log'[Len(res_log')].res.rare_values)

\* C15: formats_to_ignore is empty when the loop starts; with 'first' it
\* holds, after every iteration, exactly the rare values of the findings of
\* the iterations made so far, an iteration without finding leaves it as it
\* is and no step removes a value from it; with 'all' it is empty after every
\* iteration, and every iteration gives what its pattern gives when analysed
\* alone, whatever its place in the list.
C15_ExclusionAccumulator ==
    []AccumulatorIsUnionOfFindings /\ [][AccumulatorStep]_vars

\* with 'first': the second iteration starts from the first finding's rare
\* values and adds its own
C15_Witness ==
    /\ pattern_match_method = "first"
    /\ Len(res_log) = 2
    /\ ~res_log[1].res.empty
    /\ ~res_log[2].res.empty
    /\ res_log[2].exclude_samples # <<>>
    /\ Cardinality(Range(formats_to_ignore)) >= 2
    /\ Range(formats_to_ignore) # Range(res_log[2].exclude_samples)

\* the adjacent pair (i, i + 1) of the ranking is a sharp drop
DropAt(i) ==
    SharpDrop(value_counts[i][2], value_counts[i + 1][2], sharp_drop_ratio_threshold)

\* C12: the ranking holds the distinct items other than the empty string in
\* descending count order; with fewer than 2 items or no sharp drop between
\* adjacent items the result is "no partition"; otherwise the boundary is the
\* first sharp drop, common is the prefix up to and including its first item
\* and rare the suffix from its second item on, no pair inside common being
\* a sharp drop.
C12_BoundaryPlacement ==
    pc = "partitioned" =>
        LET n == Len(value_counts)
            b == Len(ret.common_values)
        IN  /\ Range(Index(value_counts)) = DOMAIN col \ {<<>>}
            /\ n = Cardinality(DOMAIN col \ {<<>>})
            /\ \A i \in 1..(n - 1) : value_counts[i][2] >= value_counts[i + 1][2]
            /\ IF n < 2 \/ \A i \in 1..(n - 1) : ~DropAt(i)
               THEN ret = NoRareValues
               ELSE /\ ~ret.is_none
                    /\ b \in 1..(n - 1)
                    /\ DropAt(b)
                    /\ \A i \in 1..(b - 1) : ~DropAt(i)
                    /\ ret.common_values = Index(SubSeq(value_counts, 1, b))
                    /\ ret.rare_values = Index(SubSeq(value_counts, b + 1, n))

\* a boundary after two common items, with a second sharp drop behind it
C12_Witness ==
    /\ Partitioned
    /\ <<>> \in DOMAIN col
    /\ Len(ret.common_values) = 2
    /\ Len(ret.rare_values) = 2
    /\ DropAt(3)

-----------------------------------------------------------------------------
(* Properties of _refine_formats (SpecRefine) *)

\* C9, as claimed: refining a format that contains the filler with no sample
\* at all ends in a RefinementError.
C9_EmptySamplesRaiseRefinementError ==
    (pc = "refined" /\ Contains(fmt, substr) /\ samples = <<>>)
    => new_format.raised = "RefinementError"

FormatTokens == SplitFormat(fmt, substr, is_substr_sequence)
SampleTokens == SplitExamples(fmt, substr, samples, is_substr_sequence)

\* every sample has a token at position i, the same in all of them
SamplesAgreeAt(i) ==
    \A k \in DOMAIN SampleTokens :
        /\ Len(SampleTokens[k]) >= i
        /\ Len(SampleTokens[1]) >= i
        /\ SampleTokens[k][i] = SampleTokens[1][i]

PositionWiseToken(i) ==
    IF FormatTokens[i] # substr THEN FormatTokens[i]
    ELSE IF SamplesAgreeAt(i) THEN SampleTokens[1][i]
    ELSE FormatTokens[i]

PositionWiseRefinement == Concat([i \in 1..Len(FormatTokens) |-> PositionWiseToken(i)])

\* C10, as claimed: the refined format is the concatenation, over every
\* position of the tokenized format, of the format's token when it is not
\* the filler, of the samples' common token when it is the filler and all
\* samples agree there, and of the filler otherwise.
C10_PositionWiseRefinement ==
    (pc = "refined" /\ Contains(fmt, substr) /\ samples # <<>>)
    => new_format = Returned(PositionWiseRefinement)

\* C11: a format that does not contain the filler is returned unchanged,
\* whatever the samples and the filler mode; hence a normally returned
\* refinement that holds no filler any more is a fixed point of a second
\* refinement with the same samples.
C11_RefinementIdempotence ==
    pc = "refined" =>
        /\ ~Contains(fmt, substr) => new_format = Returned(fmt)
        /\ (new_format.raised = "" /\ ~Contains(new_format.value, substr)) =>
              _refine_formats(new_format.value, substr, samples, is_substr_sequence)
                  = Returned(new_format.value)

C11_Witness ==
    /\ pc = "refined"
    /\ ~Contains(fmt, substr)
    /\ Len(samples) = 2
    /\ samples[1] # samples[2]
    /\ Len(samples[1]) # Len(fmt)
    /\ new_format = Returned(fmt)

\* a refinement that removed every filler, refined once more
C11_RefinedAgain ==
    /\ pc = "refined"
    /\ Contains(fmt, substr)
    /\ new_format.raised = ""
    /\ ~Contains(new_format.value, substr)
    /\ new_format.value # fmt

\* t occurs in s at position p
OccursAt(s, t, p) == p + Len(t) - 1 <= Len(s) /\ SubSeq(s, p, p + Len(t) - 1) = t

\* the tokens occur in s one after the other, from position p on
RECURSIVE ContainsInOrder(_, _, _)
ContainsInOrder(s, tokens, p) ==
    IF tokens = <<>> THEN TRUE
    ELSE LET at == {q \in p..Len(s) : OccursAt(s, Head(tokens), q)}
         IN  /\ at # {}
             /\ ContainsInOrder(s, Tail(tokens),
                                (CHOOSE q \in at : \A r \in at : q <= r) + Len(Head(tokens)))

\* some sample has not as many tokens as the format
ArityMismatch == \E k \in DOMAIN SampleTokens : Len(SampleTokens[k]) # Len(FormatTokens)

\* C14, as claimed: a refinement whose samples do not all tokenize to as many
\* tokens as the format ends in a RefinementError, and a refinement that
\* returns normally returns a string holding every non-filler token of the
\* format, in order.
C14_ArityChecked ==
    pc = "refined" =>
        /\ (Contains(fmt, substr) /\ samples # <<>> /\ ArityMismatch)
              => new_format.raised = "RefinementError"
        /\ new_format.raised = ""
              => ContainsInOrder(new_format.value,
                                 WithoutSeparator(FormatTokens, substr), 1)

=============================================================================
